---- MODULE Spec2Model ----
(***************************************************************************)
(* Library Management API (src/src/main.ts): the JSON document db.json,    *)
(* the helper functions addBook, addCustomer, checkoutBook,                *)
(* generateCheckoutId and returnBook, and the Express handlers that call   *)
(* them.  Node runs one handler at a time and every helper is synchronous, *)
(* so each handler is one atomic step on the document.                     *)
(***************************************************************************)
EXTENDS Integers, Sequences, FiniteSets, TLC

VARIABLES
    db,     \* the parsed content of db.json: [customers, books, checkouts]
    req,    \* the last request served: [op, body]
    res,    \* the response to it: [status, message, body]
    hung,   \* TRUE while a handler is inside generateCheckoutId's do-while
    newIdNumber  \* the number last drawn in that loop, 0 outside it

vars == <<db, req, res, hung, newIdNumber>>

(***************************************************************************)
(* Bounds of the model.                                                    *)
(***************************************************************************)
\* Spec: number of ids of the checkout-id key space (90000 in the program).
NumIds == 2
\* Spec: copies of a book stays within this cap, in absolute value.
MaxCopies == 2
\* SpecLimit: number of ids of the key space.
NumIdsDeep == 5
\* SpecLimit: copies of a book stays within this cap.
MaxCopiesDeep == 6

(***************************************************************************)
(* Program constants.                                                      *)
(***************************************************************************)
\* First number of the id key space: Math.floor(10000 + Math.random() * 90000).
IdBase == 10000
\* foundCustomerCheckouts.length >= 5
CheckoutLimit == 5

BLANK_DB == [customers |-> <<>>, books |-> <<>>, checkouts |-> <<>>]

MsgIsbnConflict == "ISBN already exists with a different title/author."
MsgCustomerExists == "Customer with provided ID already exists."
MsgNoCustomer == "No customer could be found with provided customer_id."
MsgNoBook == "No book could be found with the provided ISBN."
MsgNoCustomerGet == "No customer could be found with the provided customer_id."
MsgNoCopies == "There are currently no available copies of this book."
MsgLimit == "This customer has already checked out 5 or more books."
MsgNoCheckout == "This customer has no checked out books with the provided ISBN."
MsgReturned == "Book returned successfully"
MsgReset == "System reset successful"
MsgInvalidBook == "Invalid book format. Must include: title (string), author (string), isbn (string), copies (integer)"
MsgInvalidCustomer == "Invalid customer format. Must include: name (string), email (string), customer_id (string)"
MsgInvalidCheckout == "Invalid checkout format. Must include: isbn (string), customer_id (string), due_date (string)"
MsgInvalidReturn == "Invalid return format. Must include: isbn (string), customer_id (string)"

(***************************************************************************)
(* JavaScript values of a request body: what typeof and Number.isInteger   *)
(* see of them.                                                            *)
(***************************************************************************)
Str(s) == [type |-> "string", str |-> s, num |-> 0, integer |-> FALSE]
Num(n) == [type |-> "number", str |-> "", num |-> n, integer |-> TRUE]
\* a number with a fractional part, NaN or an infinity
NonIntegerNum == [type |-> "number", str |-> "", num |-> 0, integer |-> FALSE]
Undefined == [type |-> "undefined", str |-> "", num |-> 0, integer |-> FALSE]

\* a value the handlers find, as the argument of Array.prototype.splice
Obj(o) == [type |-> "object", ref |-> o]

\* new ApiError(code, message)
ApiError(code, message) == [code |-> code, message |-> message]

\* what a helper does: the document it wrote (the one it read when it wrote
\* nothing), whether it threw, the error thrown, the value returned
Throw(d, err) == [db |-> d, threw |-> TRUE, error |-> err, value |-> <<>>]
Return(d, v) == [db |-> d, threw |-> FALSE, error |-> ApiError(0, ""), value |-> v]

\* Array.prototype.find over the places (from 1) of the elements passing its
\* test: the first of them, 0 when there is none
FindIndex(places) ==
    IF places = {} THEN 0 ELSE CHOOSE i \in places : \A j \in places : i <= j

\* db.books.find(book => book.isbn === isbn)
FindBook(d, isbn) == FindIndex({i \in 1..Len(d.books) : d.books[i].isbn = isbn})

\* db.customers.find(customer => customer.customer_id === customer_id)
FindCustomer(d, customer_id) ==
    FindIndex({i \in 1..Len(d.customers) : d.customers[i].customer_id = customer_id})

\* ToIntegerOrInfinity of splice's start argument: an object converts to NaN,
\* and NaN to 0
ToIntegerOrInfinity(v) == IF v.type = "number" THEN v.ref ELSE 0

\* Array.prototype.splice(start, 1) with start >= 0, positions from 0
Splice1(seq, start) ==
    IF start >= Len(seq) THEN seq
    ELSE [i \in 1..(Len(seq) - 1) |-> IF i <= start THEN seq[i] ELSE seq[i + 1]]

\* err.code || 400
StatusOf(err) == IF err.code # 0 THEN err.code ELSE 400

(***************************************************************************)
(* Books.                                                                  *)
(***************************************************************************)
isValidBook(book) ==
    /\ book.title.type = "string"
    /\ book.author.type = "string"
    /\ book.isbn.type = "string"
    /\ book.copies.type = "number"
    /\ book.copies.integer

\* MetadataDiffers comparing the titles alone
MetadataDiffersTitleOnly(existingBook, newBook) ==
    existingBook.title # newBook.title

\* existingBook.title !== newBook.title || existingBook.author !== newBook.author
MetadataDiffers(existingBook, newBook) ==
    existingBook.title # newBook.title \/ existingBook.author # newBook.author

\* MergeCopies without the second assignment
MergeCopiesOnly(existingBook, newBook) ==
    [existingBook EXCEPT !.copies = @ + newBook.copies]

\* existingBook.copies += newBook.copies; existingBook.available_copies += newBook.copies
MergeCopies(existingBook, newBook) ==
    [existingBook EXCEPT !.copies = @ + newBook.copies,
                         !.available_copies = @ + newBook.copies]

\* newBook.available_copies = newBook.copies
NewBookRecord(newBook) ==
    [title |-> newBook.title, author |-> newBook.author, isbn |-> newBook.isbn,
     copies |-> newBook.copies, available_copies |-> newBook.copies]

addBook(d, newBook) ==
    LET i == FindBook(d, newBook.isbn) IN
    IF i # 0
    THEN IF MetadataDiffers(d.books[i], newBook)
         THEN Throw(d, ApiError(400, MsgIsbnConflict))
         ELSE LET existingBook == MergeCopies(d.books[i], newBook) IN
              Return([d EXCEPT !.books[i] = existingBook], existingBook)
    ELSE LET added == NewBookRecord(newBook) IN
         Return([d EXCEPT !.books = Append(@, added)], added)

(***************************************************************************)
(* Customers.                                                              *)
(***************************************************************************)
isValidCustomer(customer) ==
    /\ customer.name.type = "string"
    /\ customer.email.type = "string"
    /\ customer.customer_id.type = "string"

\* String.prototype.toLowerCase on the customer ids of the model
ToLowerCase(id) == IF id = "CUST001" THEN "cust001" ELSE id

\* SameCustomerId comparing without regard to letter case
SameCustomerIdIgnoreCase(a, b) == ToLowerCase(a) = ToLowerCase(b)

\* customer.customer_id === newCustomer.customer_id
SameCustomerId(a, b) == a = b

addCustomer(d, newCustomer) ==
    LET i == FindIndex({k \in 1..Len(d.customers) :
                          SameCustomerId(d.customers[k].customer_id,
                                         newCustomer.customer_id)}) IN
    IF i # 0
    THEN Throw(d, ApiError(400, MsgCustomerExists))
    ELSE Return([d EXCEPT !.customers = Append(@, newCustomer)], newCustomer)

(***************************************************************************)
(* Checkouts.                                                              *)
(***************************************************************************)
isValidCheckout(checkout) ==
    /\ checkout.isbn.type = "string"
    /\ checkout.customer_id.type = "string"
    /\ checkout.due_date.type = "string"

\* `CKO${newIdNumber}`
CheckoutId(n) == <<"CKO", n>>

\* generateCheckoutId without the collision test of its do-while
generateCheckoutIdNoRetry(d, keyspace) == {CheckoutId(n) : n \in keyspace}

\* the ids generateCheckoutId can return: those of the key space that no
\* checkout of the document carries; it loops for ever when there is none
generateCheckoutId(d, keyspace) ==
    {id \in {CheckoutId(n) : n \in keyspace} :
        FindIndex({j \in 1..Len(d.checkouts) : d.checkouts[j].checkout_id = id}) = 0}

\* Collides without the search of db.checkouts
CollidesNever(d, newId) == FALSE

\* the test of the do-while: db.checkouts.find(checkout => checkout.checkout_id === newId)
Collides(d, newId) ==
    FindIndex({j \in 1..Len(d.checkouts) : d.checkouts[j].checkout_id = newId}) # 0

\* NoAvailableCopies with < for <= and without the falsy test
NoAvailableCopiesStrict(foundBook) == foundBook.available_copies < 0

\* !foundBook.available_copies || foundBook.available_copies <= 0
NoAvailableCopies(foundBook) ==
    foundBook.available_copies = 0 \/ foundBook.available_copies <= 0

\* db.checkouts.filter(checkout => checkout.customer_id === foundCustomer.customer_id)
CustomerCheckouts(d, foundCustomer) ==
    SelectSeq(d.checkouts,
              LAMBDA checkout : checkout.customer_id = foundCustomer.customer_id)

\* AtCheckoutLimit with > for >=
AtCheckoutLimitOffByOne(foundCustomerCheckouts) ==
    Len(foundCustomerCheckouts) > CheckoutLimit

\* foundCustomerCheckouts.length >= 5
AtCheckoutLimit(foundCustomerCheckouts) ==
    Len(foundCustomerCheckouts) >= CheckoutLimit

\* CheckoutChecks with the limit test moved before the availability test
CheckoutChecksLimitFirst(d, newCheckout) ==
    LET c == FindCustomer(d, newCheckout.customer_id)
        b == FindBook(d, newCheckout.isbn)
    IN  IF c = 0 THEN ApiError(404, MsgNoCustomer)
        ELSE IF b = 0 THEN ApiError(404, MsgNoBook)
        ELSE IF AtCheckoutLimit(CustomerCheckouts(d, d.customers[c]))
             THEN ApiError(400, MsgLimit)
        ELSE IF NoAvailableCopies(d.books[b]) THEN ApiError(400, MsgNoCopies)
        ELSE ApiError(0, "")

\* the error checkoutBook throws before it changes anything, ApiError(0, "")
\* when every check passes
CheckoutChecks(d, newCheckout) ==
    LET c == FindCustomer(d, newCheckout.customer_id)
        b == FindBook(d, newCheckout.isbn)
    IN  IF c = 0 THEN ApiError(404, MsgNoCustomer)
        ELSE IF b = 0 THEN ApiError(404, MsgNoBook)
        ELSE IF NoAvailableCopies(d.books[b]) THEN ApiError(400, MsgNoCopies)
        ELSE IF AtCheckoutLimit(CustomerCheckouts(d, d.customers[c]))
             THEN ApiError(400, MsgLimit)
        ELSE ApiError(0, "")

\* CheckoutRecord with the author of the book stored as the title
CheckoutRecordAuthorAsTitle(newCheckout, foundBook, newId, today) ==
    [isbn |-> newCheckout.isbn, customer_id |-> newCheckout.customer_id,
     due_date |-> newCheckout.due_date, title |-> foundBook.author,
     author |-> foundBook.author, checkout_id |-> newId, checkout_date |-> today]

\* the record pushed on db.checkouts
CheckoutRecord(newCheckout, foundBook, newId, today) ==
    [isbn |-> newCheckout.isbn, customer_id |-> newCheckout.customer_id,
     due_date |-> newCheckout.due_date, title |-> foundBook.title,
     author |-> foundBook.author, checkout_id |-> newId, checkout_date |-> today]

\* checkoutBook when generateCheckoutId returns newId
checkoutBook(d, newCheckout, newId, today) ==
    LET err == CheckoutChecks(d, newCheckout)
        b == FindBook(d, newCheckout.isbn)
    IN  IF err.code # 0 THEN Throw(d, err)
        ELSE LET added == CheckoutRecord(newCheckout, d.books[b], newId, today) IN
             Return([d EXCEPT !.books[b].available_copies = @ - 1,
                              !.checkouts = Append(@, added)], added)

(***************************************************************************)
(* Returns.                                                                *)
(***************************************************************************)
isValidReturn(ret) ==
    /\ ret.isbn.type = "string"
    /\ ret.customer_id.type = "string"

\* const deleteIndex = db.checkouts.find(...): the checkout found, not its place
DeleteIndex(d, isbn, customer_id) ==
    Obj(d.checkouts[FindIndex({j \in 1..Len(d.checkouts) :
                                  d.checkouts[j].customer_id = customer_id
                                  /\ d.checkouts[j].isbn = isbn})])

\* if(deleteIndex !== -1){ db.checkouts.splice(deleteIndex, 1); }
SpliceCheckouts(checkouts, deleteIndex) ==
    IF ~(deleteIndex.type = "number" /\ deleteIndex.ref = -1)
    THEN Splice1(checkouts, ToIntegerOrInfinity(deleteIndex))
    ELSE checkouts

returnBook(d, isbn, customer_id, today) ==
    LET c == FindCustomer(d, customer_id)
        b == FindBook(d, isbn)
        foundMatchingCustomerCheckouts ==
            SelectSeq(d.checkouts,
                      LAMBDA checkout : checkout.customer_id = customer_id
                                        /\ checkout.isbn = isbn)
    IN  IF c = 0 THEN Throw(d, ApiError(404, MsgNoCustomer))
        ELSE IF b = 0 THEN Throw(d, ApiError(404, MsgNoBook))
        ELSE IF Len(foundMatchingCustomerCheckouts) = 0
             THEN Throw(d, ApiError(400, MsgNoCheckout))
        ELSE Return([d EXCEPT
                        !.checkouts = SpliceCheckouts(@, DeleteIndex(d, isbn, customer_id)),
                        !.books[b].available_copies = @ + 1],
                    [message |-> MsgReturned, isbn |-> isbn,
                     customer_id |-> customer_id, return_date |-> today])

(***************************************************************************)
(* The requests the model sends.  A universe names the values the request  *)
(* bodies are built from, the key space generateCheckoutId draws from and  *)
(* the cap on a book's copies.                                             *)
(***************************************************************************)
Wide ==
    [isbns |-> {"111", "222"},
     customer_ids |-> {"CUST001", "cust001"},
     books |-> {<<"111", "A", "X">>, <<"111", "B", "X">>, <<"111", "A", "Y">>,
                <<"222", "A", "X">>},
     copies |-> {1, 2},
     keyspace |-> IdBase..(IdBase + NumIds - 1),
     cap |-> MaxCopies,
     registered |-> {"CUST001"}]

Deep ==
    [isbns |-> {"111"},
     customer_ids |-> {"CUST001", "cust001"},
     books |-> {<<"111", "A", "X">>},
     copies |-> {2, 3},
     keyspace |-> IdBase..(IdBase + NumIdsDeep - 1),
     cap |-> MaxCopiesDeep,
     registered |-> {"CUST001"}]

Members ==
    [isbns |-> {"111"},
     customer_ids |-> {"CUST001", "cust001"},
     books |-> {<<"111", "A", "X">>},
     copies |-> {1, 2},
     keyspace |-> IdBase..(IdBase + NumIds - 1),
     cap |-> MaxCopies,
     registered |-> {"CUST001", "cust001"}]

Signed ==
    [isbns |-> {"111"},
     customer_ids |-> {"CUST001"},
     books |-> {<<"111", "A", "X">>},
     copies |-> {-1, 1},
     keyspace |-> IdBase..(IdBase + NumIds - 1),
     cap |-> MaxCopies,
     registered |-> {"CUST001"}]

Gen ==
    [isbns |-> {"111"},
     customer_ids |-> {"CUST001"},
     books |-> {<<"111", "A", "X">>},
     copies |-> {1, 2},
     keyspace |-> IdBase..(IdBase + NumIds - 1),
     cap |-> NumIds + 1,
     registered |-> {"CUST001"}]

\* one body that fails each isValid... test, next to the well-formed ones
BookBodies(U) ==
    {[title |-> Str(b[2]), author |-> Str(b[3]), isbn |-> Str(b[1]), copies |-> Num(c)] :
        b \in U.books, c \in U.copies}
    \cup {[title |-> Str("A"), author |-> Str("X"), isbn |-> Str("111"),
           copies |-> NonIntegerNum]}

CustomerBodies(U) ==
    {[name |-> Str("Ann"), email |-> Str("ann@example.com"), customer_id |-> Str(c)] :
        c \in U.registered}
    \cup {[name |-> Undefined, email |-> Str("ann@example.com"),
           customer_id |-> Str("CUST001")]}

CheckoutBodies(U) ==
    {[isbn |-> Str(i), customer_id |-> Str(c), due_date |-> Str("2026-12-01")] :
        i \in U.isbns, c \in U.customer_ids}
    \cup {[isbn |-> Str("111"), customer_id |-> Str("CUST001"), due_date |-> Undefined]}

ReturnBodies(U) ==
    {[isbn |-> Str(i), customer_id |-> Str(c)] : i \in U.isbns, c \in U.customer_ids}
    \cup {[isbn |-> Str("111"), customer_id |-> Undefined]}

\* new Date().toISOString().slice(0, 10)
Dates == {"2026-11-03"}

NoResponse == [status |-> 0, message |-> "", body |-> <<>>]

\* res.status(err.code || 400).json({message: err.message})
ErrorResponse(err) == [status |-> StatusOf(err), message |-> err.message, body |-> <<>>]

Json(status, body) == [status |-> status, message |-> "", body |-> body]

Message(status, message) == [status |-> status, message |-> message, body |-> <<>>]

Respond(out, status, body) ==
    IF out.threw THEN ErrorResponse(out.error) ELSE Json(status, body)

(***************************************************************************)
(* The handlers.                                                           *)
(***************************************************************************)
Init ==
    /\ db = BLANK_DB
    /\ req = [op |-> "none", body |-> <<>>]
    /\ res = NoResponse
    /\ hung = FALSE
    /\ newIdNumber = 0

\* app.post('/api/books')
PostBooks(body, cap) ==
    /\ ~hung
    /\ req' = [op |-> "POST /api/books", body |-> body]
    /\ IF isValidBook(body)
       THEN LET newBook == [title |-> body.title.str, author |-> body.author.str,
                            isbn |-> body.isbn.str, copies |-> body.copies.num]
                out == addBook(db, newBook)
            IN  /\ \A i \in 1..Len(out.db.books) :
                      out.db.books[i].copies \in (-cap)..cap
                /\ db' = out.db
                /\ res' = Respond(out, 201, out.value)
       ELSE /\ db' = db
            /\ res' = Message(400, MsgInvalidBook)
    /\ UNCHANGED <<hung, newIdNumber>>

\* app.post('/api/customers')
PostCustomers(body) ==
    /\ ~hung
    /\ req' = [op |-> "POST /api/customers", body |-> body]
    /\ IF isValidCustomer(body)
       THEN LET newCustomer == [name |-> body.name.str, email |-> body.email.str,
                                customer_id |-> body.customer_id.str]
                out == addCustomer(db, newCustomer)
            IN  /\ db' = out.db
                /\ res' = Respond(out, 201, out.value)
       ELSE /\ db' = db
            /\ res' = Message(400, MsgInvalidCustomer)
    /\ UNCHANGED <<hung, newIdNumber>>

\* delete addedCheckout.author
CheckoutView(c) ==
    [isbn |-> c.isbn, customer_id |-> c.customer_id, due_date |-> c.due_date,
     title |-> c.title, checkout_id |-> c.checkout_id,
     checkout_date |-> c.checkout_date]

\* app.post('/api/checkouts')
PostCheckouts(body, keyspace) ==
    /\ ~hung
    /\ req' = [op |-> "POST /api/checkouts", body |-> body]
    /\ UNCHANGED newIdNumber
    /\ IF isValidCheckout(body)
       THEN LET newCheckout == [isbn |-> body.isbn.str,
                                customer_id |-> body.customer_id.str,
                                due_date |-> body.due_date.str]
            IN  IF CheckoutChecks(db, newCheckout).code # 0
                THEN /\ db' = db
                     /\ res' = ErrorResponse(CheckoutChecks(db, newCheckout))
                     /\ UNCHANGED hung
                ELSE IF generateCheckoutId(db, keyspace) = {}
                THEN \* the do-while never ends: no write, no response, and
                     \* the single thread serves no request after it
                     /\ db' = db
                     /\ res' = NoResponse
                     /\ hung' = TRUE
                ELSE \E newId \in generateCheckoutId(db, keyspace), today \in Dates :
                        LET out == checkoutBook(db, newCheckout, newId, today) IN
                        /\ db' = out.db
                        /\ res' = Respond(out, 201, CheckoutView(out.value))
                        /\ UNCHANGED hung
       ELSE /\ db' = db
            /\ res' = Message(400, MsgInvalidCheckout)
            /\ UNCHANGED hung

\* app.post('/api/returns')
PostReturns(body) ==
    /\ ~hung
    /\ req' = [op |-> "POST /api/returns", body |-> body]
    /\ IF isValidReturn(body)
       THEN \E today \in Dates :
                LET out == returnBook(db, body.isbn.str, body.customer_id.str, today) IN
                /\ db' = out.db
                /\ res' = Respond(out, 200, out.value)
       ELSE /\ db' = db
            /\ res' = Message(400, MsgInvalidReturn)
    /\ UNCHANGED <<hung, newIdNumber>>

\* PostReset that clears the books and the checkouts only
PostResetKeepsCustomers ==
    /\ ~hung
    /\ req' = [op |-> "POST /api/reset", body |-> <<>>]
    /\ db' = [BLANK_DB EXCEPT !.customers = db.customers]
    /\ res' = Message(200, MsgReset)
    /\ UNCHANGED <<hung, newIdNumber>>

\* app.post('/api/reset')
PostReset ==
    /\ ~hung
    /\ req' = [op |-> "POST /api/reset", body |-> <<>>]
    /\ db' = BLANK_DB
    /\ res' = Message(200, MsgReset)
    /\ UNCHANGED <<hung, newIdNumber>>

NextIn(U) ==
    \/ \E body \in BookBodies(U) : PostBooks(body, U.cap)
    \/ \E body \in CustomerBodies(U) : PostCustomers(body)
    \/ \E body \in CheckoutBodies(U) : PostCheckouts(body, U.keyspace)
    \/ \E body \in ReturnBodies(U) : PostReturns(body)
    \/ PostReset

Next == NextIn(Wide)

Spec == Init /\ [][Next]_vars

NextLimit == NextIn(Deep)

SpecLimit == Init /\ [][NextLimit]_vars

NextMembers == NextIn(Members)

SpecMembers == Init /\ [][NextMembers]_vars

NextSigned == NextIn(Signed)

SpecSigned == Init /\ [][NextSigned]_vars

(***************************************************************************)
(* POST /api/checkouts with generateCheckoutId taken one turn of its        *)
(* do-while at a time.  The document on disk is written only after the     *)
(* loop, and no other handler runs while the loop does.                    *)
(***************************************************************************)
\* CheckoutBegin with a writeDB(db) right after foundBook.available_copies--
CheckoutBeginWritesEarly(body) ==
    /\ ~hung
    /\ req' = [op |-> "POST /api/checkouts", body |-> body]
    /\ UNCHANGED newIdNumber
    /\ IF isValidCheckout(body)
       THEN LET newCheckout == [isbn |-> body.isbn.str,
                                customer_id |-> body.customer_id.str,
                                due_date |-> body.due_date.str]
            IN  IF CheckoutChecks(db, newCheckout).code # 0
                THEN /\ res' = ErrorResponse(CheckoutChecks(db, newCheckout))
                     /\ UNCHANGED <<db, hung>>
                ELSE /\ db' = [db EXCEPT
                                  !.books[FindBook(db, newCheckout.isbn)].available_copies = @ - 1]
                     /\ res' = NoResponse
                     /\ hung' = TRUE
       ELSE /\ res' = Message(400, MsgInvalidCheckout)
            /\ UNCHANGED <<db, hung>>

\* the handler up to the call of generateCheckoutId
CheckoutBegin(body) ==
    /\ ~hung
    /\ req' = [op |-> "POST /api/checkouts", body |-> body]
    /\ UNCHANGED <<db, newIdNumber>>
    /\ IF isValidCheckout(body)
       THEN LET newCheckout == [isbn |-> body.isbn.str,
                                customer_id |-> body.customer_id.str,
                                due_date |-> body.due_date.str]
            IN  IF CheckoutChecks(db, newCheckout).code # 0
                THEN /\ res' = ErrorResponse(CheckoutChecks(db, newCheckout))
                     /\ UNCHANGED hung
                ELSE /\ res' = NoResponse
                     /\ hung' = TRUE
       ELSE /\ res' = Message(400, MsgInvalidCheckout)
            /\ UNCHANGED hung

\* a turn of the do-while that draws the number of an open checkout: the loop
\* goes round again
RollTaken(keyspace) ==
    /\ hung
    /\ \E n \in keyspace :
          /\ Collides(db, CheckoutId(n))
          /\ newIdNumber' = n
    /\ UNCHANGED <<db, req, res, hung>>

\* a turn that draws a number no open checkout has: the loop ends, checkoutBook
\* pushes the record and writes, the handler answers
RollFree(keyspace) ==
    /\ hung
    /\ \E n \in keyspace, today \in Dates :
          /\ ~Collides(db, CheckoutId(n))
          /\ LET newCheckout == [isbn |-> req.body.isbn.str,
                                 customer_id |-> req.body.customer_id.str,
                                 due_date |-> req.body.due_date.str]
                 out == checkoutBook(db, newCheckout, CheckoutId(n), today)
             IN  /\ db' = out.db
                 /\ res' = Respond(out, 201, CheckoutView(out.value))
    /\ hung' = FALSE
    /\ newIdNumber' = 0
    /\ UNCHANGED req

NextGen ==
    \/ \E body \in BookBodies(Gen) : PostBooks(body, Gen.cap)
    \/ \E body \in CustomerBodies(Gen) : PostCustomers(body)
    \/ \E body \in CheckoutBodies(Gen) : CheckoutBegin(body)
    \/ RollTaken(Gen.keyspace)
    \/ RollFree(Gen.keyspace)
    \/ \E body \in ReturnBodies(Gen) : PostReturns(body)
    \/ PostReset

SpecGen == Init /\ [][NextGen]_vars

\* Math.random draws every number of the key space with the same probability,
\* so a free number is not passed over for ever
SpecGenFair == SpecGen /\ WF_vars(RollFree(Gen.keyspace))

(***************************************************************************)
(* The GET handlers.  Each works on the object parsed by readDB and calls  *)
(* no writeDB.                                                             *)
(***************************************************************************)
\* app.get('/api/books/:isbn')
GetBook(isbn) ==
    /\ ~hung
    /\ req' = [op |-> "GET /api/books/:isbn", body |-> [isbn |-> Str(isbn)]]
    /\ res' = IF FindBook(db, isbn) # 0
              THEN Json(200, db.books[FindBook(db, isbn)])
              ELSE Message(404, MsgNoBook)
    /\ UNCHANGED <<db, hung, newIdNumber>>

\* app.get('/api/customers/:customer_id')
GetCustomer(customer_id) ==
    /\ ~hung
    /\ req' = [op |-> "GET /api/customers/:customer_id",
               body |-> [customer_id |-> Str(customer_id)]]
    /\ res' = IF FindCustomer(db, customer_id) # 0
              THEN Json(200, db.customers[FindCustomer(db, customer_id)])
              ELSE Message(404, MsgNoCustomerGet)
    /\ UNCHANGED <<db, hung, newIdNumber>>

\* delete checkout.customer_id; delete checkout.checkout_id
StripIds(checkout) ==
    [isbn |-> checkout.isbn, due_date |-> checkout.due_date,
     title |-> checkout.title, author |-> checkout.author,
     checkout_date |-> checkout.checkout_date]

\* the checkouts of the listed customer as the two delete statements leave
\* them in the parsed document, a deleted property reading as undefined
StrippedInPlace(d, customer_id) ==
    [j \in 1..Len(d.checkouts) |->
        IF d.checkouts[j].customer_id = customer_id
        THEN [d.checkouts[j] EXCEPT !.customer_id = "undefined",
                                    !.checkout_id = <<"undefined">>]
        ELSE d.checkouts[j]]

\* GetCustomerBooks with a writeDB(db) after the forEach
GetCustomerBooksWrites(customer_id) ==
    /\ ~hung
    /\ req' = [op |-> "GET /api/customers/:customer_id/books",
               body |-> [customer_id |-> Str(customer_id)]]
    /\ IF FindCustomer(db, customer_id) # 0
       THEN LET foundCustomerCheckouts ==
                    CustomerCheckouts(db, db.customers[FindCustomer(db, customer_id)])
            IN  /\ res' = Json(200, [i \in 1..Len(foundCustomerCheckouts) |->
                                        StripIds(foundCustomerCheckouts[i])])
                /\ db' = [db EXCEPT !.checkouts = StrippedInPlace(db, customer_id)]
       ELSE /\ res' = Message(404, MsgNoCustomerGet)
            /\ db' = db
    /\ UNCHANGED <<hung, newIdNumber>>

\* app.get('/api/customers/:customer_id/books')
GetCustomerBooks(customer_id) ==
    /\ ~hung
    /\ req' = [op |-> "GET /api/customers/:customer_id/books",
               body |-> [customer_id |-> Str(customer_id)]]
    /\ IF FindCustomer(db, customer_id) # 0
       THEN LET foundCustomerCheckouts ==
                    CustomerCheckouts(db, db.customers[FindCustomer(db, customer_id)])
            IN  res' = Json(200, [i \in 1..Len(foundCustomerCheckouts) |->
                                     StripIds(foundCustomerCheckouts[i])])
       ELSE res' = Message(404, MsgNoCustomerGet)
    /\ UNCHANGED <<db, hung, newIdNumber>>

NextQueries ==
    \/ NextIn(Members)
    \/ \E isbn \in Members.isbns : GetBook(isbn)
    \/ \E customer_id \in Members.customer_ids : GetCustomer(customer_id)
    \/ \E customer_id \in Members.customer_ids : GetCustomerBooks(customer_id)

SpecQueries == Init /\ [][NextQueries]_vars

(***************************************************************************)
(* Vocabulary of the properties: what a request asks and what a document   *)
(* holds, read off the state alone.                                        *)
(***************************************************************************)
IsAddBook(r) ==
    /\ r.op = "POST /api/books"
    /\ r.body.copies.type = "number" /\ r.body.copies.integer

IsCheckout(r) == r.op = "POST /api/checkouts" /\ r.body.due_date.type = "string"

IsReturn(r) == r.op = "POST /api/returns" /\ r.body.customer_id.type = "string"

Failed(r, status, message) == r = [status |-> status, message |-> message, body |-> <<>>]

BookPlaces(d, isbn) == {i \in 1..Len(d.books) : d.books[i].isbn = isbn}

HasCustomer(d, customer_id) ==
    \E i \in 1..Len(d.customers) : d.customers[i].customer_id = customer_id

\* places in d.checkouts of the open checkouts of a customer, of a book, of both
OpenOfCustomer(d, customer_id) ==
    {j \in 1..Len(d.checkouts) : d.checkouts[j].customer_id = customer_id}

OpenOfBook(d, isbn) == {j \in 1..Len(d.checkouts) : d.checkouts[j].isbn = isbn}

OpenOfBoth(d, isbn, customer_id) == OpenOfBook(d, isbn) \cap OpenOfCustomer(d, customer_id)

\* seq without its element at place k
Without(seq, k) == [i \in 1..(Len(seq) - 1) |-> IF i < k THEN seq[i] ELSE seq[i + 1]]

Max(S) == CHOOSE x \in S : \A y \in S : y <= x

(***************************************************************************)
(* C1: every book always has 0 <= available_copies <= copies.              *)
(***************************************************************************)
C1_AvailableWithinCopies ==
    \A i \in 1..Len(db.books) :
        /\ 0 <= db.books[i].available_copies
        /\ db.books[i].available_copies <= db.books[i].copies

(***************************************************************************)
(* C2: every book's available_copies is its copies minus the number of     *)
(* open checkouts of its isbn.                                             *)
(***************************************************************************)
C2_AvailableIsCopiesMinusOpen ==
    \A i \in 1..Len(db.books) :
        db.books[i].available_copies =
            db.books[i].copies - Cardinality(OpenOfBook(db, db.books[i].isbn))

(***************************************************************************)
(* C3: no customer_id is on more than 5 open checkouts, and a checkout     *)
(* asked by an existing customer who holds 5, for a book with an available *)
(* copy, fails with the limit error and adds nothing.                      *)
(***************************************************************************)
AtMostFiveOpen ==
    \A j \in 1..Len(db.checkouts) :
        Cardinality(OpenOfCustomer(db, db.checkouts[j].customer_id)) <= 5

SixthCheckoutRefused ==
    (/\ IsCheckout(req')
     /\ HasCustomer(db, req'.body.customer_id.str)
     /\ Cardinality(OpenOfCustomer(db, req'.body.customer_id.str)) = 5
     /\ \E i \in BookPlaces(db, req'.body.isbn.str) : db.books[i].available_copies > 0)
    => (Failed(res', 400, MsgLimit) /\ db' = db)

\* C3: at most 5 open checkouts per customer_id, and the 6th is refused
C3_CheckoutLimit == []AtMostFiveOpen /\ [][SixthCheckoutRefused]_vars

C3_Witness ==
    /\ IsCheckout(req)
    /\ Failed(res, 400, MsgLimit)
    /\ Cardinality(OpenOfCustomer(db, req.body.customer_id.str)) = 5
    /\ \E i \in BookPlaces(db, req.body.isbn.str) : db.books[i].available_copies > 0

(***************************************************************************)
(* C4: no two open checkouts of the document have the same checkout_id.    *)
(***************************************************************************)
C4_UniqueCheckoutIds ==
    \A j, k \in 1..Len(db.checkouts) :
        j # k => db.checkouts[j].checkout_id # db.checkouts[k].checkout_id

\* a checkout is issued while another one is open
C4_Witness ==
    /\ IsCheckout(req)
    /\ res.status = 201
    /\ Len(db.checkouts) >= 2
    /\ db.checkouts[Len(db.checkouts)].checkout_id = res.body.checkout_id

(***************************************************************************)
(* C5: a successful returnBook(isbn, customer_id) removes the last record  *)
(* of db.checkouts matching both isbn and customer_id, and no other.       *)
(***************************************************************************)
ReturnRemovesLastMatch ==
    (IsReturn(req') /\ res'.status = 200)
    => LET matching == OpenOfBoth(db, req'.body.isbn.str, req'.body.customer_id.str)
       IN  /\ matching # {}
           /\ db'.checkouts = Without(db.checkouts, Max(matching))

\* C5: every successful return removes the last matching record
C5_ReturnsLastCheckout == [][ReturnRemovesLastMatch]_vars

(***************************************************************************)
(* C6: a successful checkoutBook(isbn, customer_id) takes one copy and     *)
(* adds one record of the pair, and a returnBook(isbn, customer_id) right  *)
(* after it succeeds, gives the copy back and removes exactly one record,  *)
(* one of that pair.                                                       *)
(***************************************************************************)
CheckoutTakesOne ==
    (IsCheckout(req') /\ res'.status = 201)
    => LET isbn == req'.body.isbn.str
           customer_id == req'.body.customer_id.str
       IN  /\ Len(db'.books) = Len(db.books)
           /\ \A b \in BookPlaces(db, isbn) :
                 db'.books[b].available_copies = db.books[b].available_copies - 1
           /\ Len(db'.checkouts) = Len(db.checkouts) + 1
           /\ Cardinality(OpenOfBoth(db', isbn, customer_id))
                 = Cardinality(OpenOfBoth(db, isbn, customer_id)) + 1

ReturnGivesBack ==
    (/\ IsCheckout(req) /\ res.status = 201
     /\ IsReturn(req')
     /\ req'.body.isbn = req.body.isbn
     /\ req'.body.customer_id = req.body.customer_id)
    => LET isbn == req.body.isbn.str
           customer_id == req.body.customer_id.str
       IN  /\ res'.status = 200
           /\ Len(db'.books) = Len(db.books)
           /\ \A b \in BookPlaces(db, isbn) :
                 db'.books[b].available_copies = db.books[b].available_copies + 1
           /\ \E k \in OpenOfBoth(db, isbn, customer_id) :
                 db'.checkouts = Without(db.checkouts, k)
           /\ Cardinality(OpenOfBoth(db', isbn, customer_id))
                 = Cardinality(OpenOfBoth(db, isbn, customer_id)) - 1

\* C6: checkout then return of the same pair is a round trip
C6_CheckoutReturnRoundTrip == [][CheckoutTakesOne /\ ReturnGivesBack]_vars

(***************************************************************************)
(* C7: addBook of an isbn the catalog lacks appends a book with            *)
(* available_copies = copies; addBook of an isbn the catalog has, with the *)
(* same title and author, adds the submitted copies to that book's copies  *)
(* and available_copies; either way the isbn is on one book afterwards and *)
(* nothing else of the document changes.                                   *)
(***************************************************************************)
AddBookCreatesOrMerges ==
    IsAddBook(req')
    => LET isbn == req'.body.isbn.str
           title == req'.body.title.str
           author == req'.body.author.str
           n == req'.body.copies.num
           places == BookPlaces(db, isbn)
       IN  /\ places = {}
                => /\ res'.status = 201
                   /\ db' = [db EXCEPT !.books =
                                Append(@, [title |-> title, author |-> author,
                                           isbn |-> isbn, copies |-> n,
                                           available_copies |-> n])]
           /\ \A i \in places :
                (db.books[i].title = title /\ db.books[i].author = author)
                => /\ res'.status = 201
                   /\ db' = [db EXCEPT !.books[i].copies = @ + n,
                                       !.books[i].available_copies = @ + n]
           /\ res'.status = 201 => Cardinality(BookPlaces(db', isbn)) = 1

\* C7: every addBook creates the book or merges the copies
C7_AddBookCreatesOrMerges == [][AddBookCreatesOrMerges]_vars

\* a merge into a book that has a copy checked out
C7_Witness ==
    /\ IsAddBook(req)
    /\ res.status = 201
    /\ \E i \in BookPlaces(db, req.body.isbn.str) :
          /\ db.books[i].copies > req.body.copies.num
          /\ db.books[i].available_copies < db.books[i].copies
          /\ res.body = db.books[i]

(***************************************************************************)
(* C8: addBook of an isbn the catalog has under another title or another   *)
(* author fails with the conflict error and leaves the document as it was. *)
(***************************************************************************)
AddBookConflict ==
    (/\ IsAddBook(req')
     /\ \E i \in BookPlaces(db, req'.body.isbn.str) :
           \/ db.books[i].title # req'.body.title.str
           \/ db.books[i].author # req'.body.author.str)
    => (Failed(res', 400, MsgIsbnConflict) /\ db' = db)

\* C8: every addBook with other metadata fails and writes nothing
C8_AddBookConflict == [][AddBookConflict]_vars

\* a conflict on the author alone
C8_Witness ==
    /\ IsAddBook(req)
    /\ Failed(res, 400, MsgIsbnConflict)
    /\ \E i \in BookPlaces(db, req.body.isbn.str) :
          /\ db.books[i].title = req.body.title.str
          /\ db.books[i].author # req.body.author.str

(***************************************************************************)
(* C9: checkoutBook by an existing customer of an existing book with       *)
(* available_copies = 0 fails with the capacity error and leaves the       *)
(* document as it was.                                                     *)
(***************************************************************************)
CheckoutWithoutCopies ==
    (/\ IsCheckout(req')
     /\ HasCustomer(db, req'.body.customer_id.str)
     /\ \E i \in BookPlaces(db, req'.body.isbn.str) : db.books[i].available_copies = 0)
    => (Failed(res', 400, MsgNoCopies) /\ db' = db)

\* C9: every checkout of a book without copies fails and writes nothing
C9_CheckoutWithoutCopies == [][CheckoutWithoutCopies]_vars

C9_Witness ==
    /\ IsCheckout(req)
    /\ Failed(res, 400, MsgNoCopies)
    /\ HasCustomer(db, req.body.customer_id.str)
    /\ \E i \in BookPlaces(db, req.body.isbn.str) : db.books[i].available_copies = 0

(***************************************************************************)
(* C10: checkoutBook answers with the error of the first failing check among *)
(* customer exists, book exists, a copy is available, the customer holds   *)
(* fewer than 5 checkouts, and a checkout that does not succeed leaves the *)
(* document as it was.                                                     *)
(***************************************************************************)
CheckoutFirstFailingCheck ==
    IsCheckout(req')
    => LET isbn == req'.body.isbn.str
           customer_id == req'.body.customer_id.str
       IN  /\ IF ~HasCustomer(db, customer_id)
                THEN Failed(res', 404, MsgNoCustomer)
              ELSE IF BookPlaces(db, isbn) = {}
                THEN Failed(res', 404, MsgNoBook)
              ELSE IF \E i \in BookPlaces(db, isbn) : db.books[i].available_copies <= 0
                THEN Failed(res', 400, MsgNoCopies)
              ELSE IF Cardinality(OpenOfCustomer(db, customer_id)) >= 5
                THEN Failed(res', 400, MsgLimit)
              ELSE res'.status \notin {400, 404}
           /\ res'.status # 201 => db' = db

\* C10: every checkout answers with its first failing check
C10_CheckoutFirstFailingCheck == [][CheckoutFirstFailingCheck]_vars

\* no copy left and the customer at the limit: the capacity error
C10_Witness ==
    /\ IsCheckout(req)
    /\ Failed(res, 400, MsgNoCopies)
    /\ Cardinality(OpenOfCustomer(db, req.body.customer_id.str)) = 5

(***************************************************************************)
(* C11: no two customers of the document have the same customer_id, letter *)
(* case counting: addCustomer of a stored id fails with the conflict error *)
(* and writes nothing, addCustomer of an id not stored, be it a stored id  *)
(* in another letter case, appends the customer.                           *)
(***************************************************************************)
IsAddCustomer(r) == r.op = "POST /api/customers" /\ r.body.name.type = "string"

UniqueCustomerIds ==
    \A j, k \in 1..Len(db.customers) :
        j # k => db.customers[j].customer_id # db.customers[k].customer_id

AddCustomerExact ==
    IsAddCustomer(req')
    => IF HasCustomer(db, req'.body.customer_id.str)
       THEN Failed(res', 400, MsgCustomerExists) /\ db' = db
       ELSE /\ res'.status = 201
            /\ db' = [db EXCEPT !.customers =
                         Append(@, [name |-> req'.body.name.str,
                                    email |-> req'.body.email.str,
                                    customer_id |-> req'.body.customer_id.str])]

\* C11: customer ids stay unique and are compared exactly
C11_CustomerIdsUniqueExact == []UniqueCustomerIds /\ [][AddCustomerExact]_vars

\* cust001 is accepted while CUST001 is stored
C11_Witness ==
    /\ IsAddCustomer(req)
    /\ res.status = 201
    /\ req.body.customer_id.str = "cust001"
    /\ HasCustomer(db, "CUST001")
    /\ HasCustomer(db, "cust001")

(***************************************************************************)
(* C12: addBook with a negative integer copies is rejected with the        *)
(* validation error and writes nothing.                                    *)
(***************************************************************************)
NegativeCopiesRejected ==
    (/\ req'.op = "POST /api/books"
     /\ req'.body.copies.type = "number"
     /\ req'.body.copies.integer
     /\ req'.body.copies.num < 0)
    => (Failed(res', 400, MsgInvalidBook) /\ db' = db)

\* C12: every addBook with negative copies is refused as invalid
C12_NegativeCopiesRejected == [][NegativeCopiesRejected]_vars

(***************************************************************************)
(* C13: a return by a known customer of a known book that the customer     *)
(* does not hold fails with the status of a missing customer or book (404) *)
(* and writes nothing.                                                     *)
(***************************************************************************)
NotFoundStatus == 404

ReturnWithoutCheckout ==
    (/\ IsReturn(req')
     /\ HasCustomer(db, req'.body.customer_id.str)
     /\ BookPlaces(db, req'.body.isbn.str) # {}
     /\ OpenOfBoth(db, req'.body.isbn.str, req'.body.customer_id.str) = {})
    => (Failed(res', NotFoundStatus, MsgNoCheckout) /\ db' = db)

\* C13: a return with no matching checkout fails as not found, document unchanged
C13_ReturnWithoutCheckout == [][ReturnWithoutCheckout]_vars

(***************************************************************************)
(* C14: every reset, the first one and every later one, leaves the         *)
(* document with no customers, no books and no checkouts.                  *)
(***************************************************************************)
ResetClears ==
    req'.op = "POST /api/reset"
    => /\ db' = [customers |-> <<>>, books |-> <<>>, checkouts |-> <<>>]
       /\ res' = [status |-> 200, message |-> MsgReset, body |-> <<>>]

\* C14: a reset from any reachable state yields the empty document
C14_ResetClears == [][ResetClears]_vars

\* a reset has been answered and the document is empty
C14_Witness ==
    /\ req.op = "POST /api/reset"
    /\ res.status = 200
    /\ db.customers = <<>> /\ db.books = <<>> /\ db.checkouts = <<>>

(***************************************************************************)
(* C15: a successful return keeps every checkout that does not match both  *)
(* the isbn and the customer_id of the request, and changes the            *)
(* available_copies of no other book.                                      *)
(***************************************************************************)
NotMatching(checkouts, isbn, customer_id) ==
    SelectSeq(checkouts,
              LAMBDA checkout : ~(checkout.isbn = isbn
                                  /\ checkout.customer_id = customer_id))

ReturnFrame ==
    (IsReturn(req') /\ res'.status = 200)
    => LET isbn == req'.body.isbn.str
           customer_id == req'.body.customer_id.str
       IN  /\ NotMatching(db'.checkouts, isbn, customer_id)
                 = NotMatching(db.checkouts, isbn, customer_id)
           /\ Len(db'.books) = Len(db.books)
           /\ \A i \in 1..Len(db.books) :
                 db.books[i].isbn # isbn => db'.books[i] = db.books[i]

\* C15: a successful return touches only the matching checkouts and the returned book
C15_ReturnFrame == [][ReturnFrame]_vars

(***************************************************************************)
(* C16: the do-while of generateCheckoutId ends when a number of the key   *)
(* space is free, with an id no open checkout has; when every number is    *)
(* taken it never ends, and the request is neither answered nor written.   *)
(***************************************************************************)
FreeIds == generateCheckoutId(db, Gen.keyspace)

LoopEndsWhenFree == (hung /\ FreeIds # {}) ~> ~hung

LoopEndsWithFreeId ==
    (hung /\ ~hung')
    => /\ res'.status = 201
       /\ res'.body.checkout_id \in FreeIds
       /\ db'.checkouts = Append(db.checkouts,
                                 db'.checkouts[Len(db'.checkouts)])

LoopStaysWhenExhausted ==
    (hung /\ FreeIds = {})
    => (hung' /\ db' = db /\ res' = NoResponse /\ req' = req)

\* C16: id generation ends under fair choice iff some id of the key space is free
C16_GenerateTerminates ==
    /\ LoopEndsWhenFree
    /\ [][LoopEndsWithFreeId /\ LoopStaysWhenExhausted]_vars

\* the loop has just drawn a taken number while the other number is free
C16_Witness ==
    /\ hung
    /\ newIdNumber # 0
    /\ FreeIds # {}
    /\ Collides(db, CheckoutId(newIdNumber))

\* the loop runs with every number of the key space taken
C16_WitnessExhausted == hung /\ FreeIds = {} /\ newIdNumber # 0

(***************************************************************************)
(* C17: the document on disk changes only in the one write that ends a     *)
(* successful operation; a refused request and a request still inside      *)
(* generateCheckoutId write nothing, so the copies out of the shelves      *)
(* always number the open checkouts.                                       *)
(***************************************************************************)
CopiesOut(books) ==
    LET out[i \in 0..Len(books)] ==
            IF i = 0 THEN 0
            ELSE out[i - 1] + (books[i].copies - books[i].available_copies)
    IN  out[Len(books)]

NoPartialState == CopiesOut(db.books) = Len(db.checkouts)

WritesOnlyOnSuccess == (db' # db) => (res'.status \in {200, 201})

CheckoutWritesWhole ==
    (req'.op = "POST /api/checkouts" /\ res'.status = 201)
    => \E b \in 1..Len(db.books) :
          /\ db.books[b].isbn = req'.body.isbn.str
          /\ db' = [db EXCEPT !.books[b].available_copies = @ - 1,
                              !.checkouts = Append(@, db'.checkouts[Len(db'.checkouts)])]

ReturnWritesWhole ==
    (req'.op = "POST /api/returns" /\ res'.status = 200)
    => \E b \in 1..Len(db.books), k \in 1..Len(db.checkouts) :
          /\ db.books[b].isbn = req'.body.isbn.str
          /\ db' = [db EXCEPT !.books[b].available_copies = @ + 1,
                              !.checkouts = Without(@, k)]

\* C17: one write per operation, after its checks; no partial effect is ever on disk
C17_WholeWrites ==
    /\ []NoPartialState
    /\ [][WritesOnlyOnSuccess /\ CheckoutWritesWhole /\ ReturnWritesWhole]_vars

\* a checkout has passed its checks and taken a copy in memory, the loop of
\* generateCheckoutId runs, and the document on disk is still the one read
C17_Witness ==
    /\ hung
    /\ res = NoResponse
    /\ req.op = "POST /api/checkouts"
    /\ db.checkouts # <<>>
    /\ \E b \in 1..Len(db.books) : db.books[b].available_copies > 0

(***************************************************************************)
(* C18: every open checkout names a book and a customer of the document,   *)
(* and carries the title of that book.                                     *)
(***************************************************************************)
\* C18: checkouts refer to an existing book, with its title, and an existing customer
C18_ReferentialIntegrity ==
    \A j \in 1..Len(db.checkouts) :
        /\ \E b \in 1..Len(db.books) :
              /\ db.books[b].isbn = db.checkouts[j].isbn
              /\ db.books[b].title = db.checkouts[j].title
        /\ \A b \in 1..Len(db.books) :
              db.books[b].isbn = db.checkouts[j].isbn
              => db.books[b].title = db.checkouts[j].title
        /\ \E c \in 1..Len(db.customers) :
              db.customers[c].customer_id = db.checkouts[j].customer_id

\* two books on the shelves, one of them checked out, after more copies of it
\* were added
C18_Witness ==
    /\ Len(db.books) = 2
    /\ Len(db.checkouts) >= 1
    /\ req.op = "POST /api/books"
    /\ res.status = 201
    /\ req.body.isbn.str = db.checkouts[1].isbn

(***************************************************************************)
(* C19: the three GET handlers leave the document as it is; the listing    *)
(* answers records without customer_id and checkout_id while the stored    *)
(* records keep both, so a return that follows the listing finds them.     *)
(***************************************************************************)
IsQuery(r) ==
    r.op \in {"GET /api/books/:isbn", "GET /api/customers/:customer_id",
              "GET /api/customers/:customer_id/books"}

IsListing(r) == r.op = "GET /api/customers/:customer_id/books"

QueriesReadOnly == IsQuery(req') => db' = db

ListingSuppressesIds ==
    (IsListing(req') /\ res'.status = 200)
    => /\ Len(res'.body) = Cardinality(OpenOfCustomer(db, req'.body.customer_id.str))
       /\ \A i \in 1..Len(res'.body) :
             {"customer_id", "checkout_id"} \cap DOMAIN res'.body[i] = {}

StoredCheckoutsKeepIds ==
    \A j \in 1..Len(db.checkouts) :
        /\ HasCustomer(db, db.checkouts[j].customer_id)
        /\ db.checkouts[j].checkout_id \in {CheckoutId(n) : n \in Members.keyspace}

\* a return of a book that the listing just showed for the same customer
ReturnAfterListing ==
    (/\ IsListing(req) /\ res.status = 200
     /\ IsReturn(req')
     /\ req'.body.customer_id.str = req.body.customer_id.str
     /\ \E i \in 1..Len(res.body) : res.body[i].isbn = req'.body.isbn.str)
    => res'.status = 200

\* after a listing the limit check of checkoutBook counts, by customer_id, as
\* many stored checkouts of the customer as the listing answered
LimitCountAfterListing ==
    (IsListing(req') /\ res'.status = 200)
    => Len(CustomerCheckouts(db',
               db'.customers[FindCustomer(db', req'.body.customer_id.str)]))
       = Len(res'.body)

\* C19: queries never change the document; stored checkouts keep both identifiers
C19_QueriesReadOnly ==
    /\ []StoredCheckoutsKeepIds
    /\ [][QueriesReadOnly /\ ListingSuppressesIds
          /\ ReturnAfterListing /\ LimitCountAfterListing]_vars

\* a listing has just answered a customer's open checkout
C19_Witness ==
    /\ IsListing(req)
    /\ res.status = 200
    /\ Len(res.body) >= 1
    /\ Len(db.checkouts) >= 1

====
